---- MODULE Spec2Model ----
(***************************************************************************)
(* The HelloWorld contract of pruntime/enclave/src/contracts/helloworld.rs *)
(* as a state machine: one contract instance fed commands by the ledger    *)
(* replay driver and queries by the query gateway, and a second instance   *)
(* that replays the recorded command sequence at its own pace.             *)
(***************************************************************************)
EXTENDS Naturals, Sequences, FiniteSets, TLC

\* ------------------------------------------------------------------ bounds
\* The number of commands the replay driver delivers in a run.
MaxCmds == 3

\* chain::AccountId values the drivers may supply as origin, in the order
\* AccountIdWrapper's Ord gives them.
AccountOrder == <<"A", "B", "C">>
AccountIds == {AccountOrder[i] : i \in DOMAIN AccountOrder}
\* TxRef values (opaque to the contract): positions in the ledger, one more
\* than the commands of a run so that the driver may skip a position.
TxRefs == 1..(MaxCmds + 1)
\* String payloads of SetWhisper, the empty string included.
Whispers == {"", "hi"}

\* --------------------------------------------------------------- data types
\* Option<T>
None == [some |-> FALSE]
Some(x) == [some |-> TRUE, val |-> x]
Options(S) == {None} \cup {Some(x) : x \in S}

\* enum Command { SetWhisper { whisper } }
SetWhisper(w) == [tag |-> "SetWhisper", whisper |-> w]
Commands == {SetWhisper(w) : w \in Whispers}

\* enum Request { GetWhisper }
GetWhisper == [tag |-> "GetWhisper"]
Requests == {GetWhisper}

\* enum Error { NotAuthorized, SomeOtherError }
NotAuthorized == "NotAuthorized"
SomeOtherError == "SomeOtherError"
Errors == {NotAuthorized, SomeOtherError}

\* enum Response { GetWhisper { whisper }, Error(Error) }
ResponseGetWhisper(w) == [tag |-> "GetWhisper", whisper |-> w]
ResponseError(e) == [tag |-> "Error", error |-> e]
\* A panic unwinding out of the handler (Option::unwrap on None): no Response.
Panic == [tag |-> "panic"]

\* TransactionStatus::Ok
StatusOk == "Ok"

\* Result<Response, Error>
Ok(r) == [ok |-> TRUE, val |-> r]
Err(e) == [ok |-> FALSE, err |-> e]

\* ----------------------------------------------------- BTreeMap<K, String>
\* A map is the sequence of its entries in ascending key order, which is what
\* a B-tree holds and what iterating or serializing it yields.
Entry(k, v) == [key |-> k, value |-> v]
EmptyMap == <<>>
Rank(k) == CHOOSE i \in DOMAIN AccountOrder : AccountOrder[i] = k
Lt(j, k) == Rank(j) < Rank(k)
Keys(m) == {m[i].key : i \in DOMAIN m}
Find(m, k) == {i \in DOMAIN m : m[i].key = k}
First(S) == CHOOSE i \in S : \A j \in S : i <= j

\* Mutant of contains_key: asks whether the map holds anything at all.
contains_key_any(m, k) == m # <<>>

\* BTreeMap::contains_key
contains_key(m, k) == Find(m, k) # {}

\* BTreeMap::get: Option<&V>
get(m, k) == IF Find(m, k) # {} THEN Some(m[First(Find(m, k))].value) ELSE None

\* Mutant of insert: keeps the value already stored (entry().or_insert).
insert_keep(m, k, v) ==
    IF Find(m, k) # {}
    THEN m
    ELSE LET n == Cardinality({i \in DOMAIN m : Lt(m[i].key, k)})
         IN  SubSeq(m, 1, n) \o <<Entry(k, v)>> \o SubSeq(m, n + 1, Len(m))

\* Mutant of insert: the map is replaced by the one new entry (a single
\* shared slot).
insert_single(m, k, v) == <<Entry(k, v)>>

\* Mutant of insert: the entry is pushed at the end, whatever the map holds.
insert_push(m, k, v) == Append(m, Entry(k, v))

\* BTreeMap::insert: the value of an existing key is replaced in place, a new
\* key is put at its place in the order.
insert(m, k, v) ==
    IF Find(m, k) # {}
    THEN LET p == First(Find(m, k))
         IN  SubSeq(m, 1, p - 1) \o <<Entry(k, v)>> \o SubSeq(m, p + 1, Len(m))
    ELSE LET n == Cardinality({i \in DOMAIN m : Lt(m[i].key, k)})
         IN  SubSeq(m, 1, n) \o <<Entry(k, v)>> \o SubSeq(m, n + 1, Len(m))

\* BTreeMap::len
len(m) == Len(m)

\* The map that holds f[k] under every key k of the function f.
MapOf(f) ==
    LET ks == SelectSeq(AccountOrder, LAMBDA a : a \in DOMAIN f)
    IN  [i \in 1..Len(ks) |-> Entry(ks[i], f[ks[i]])]

\* Every value a BTreeMap<AccountIdWrapper, String> can take.
AllMaps == {MapOf(f) : f \in UNION {[S -> Whispers] : S \in SUBSET AccountIds}}

\* Option::unwrap: the value, or a panic
unwrap(o) == IF o.some THEN [panic |-> FALSE, val |-> o.val] ELSE [panic |-> TRUE]

\* AccountIdWrapper(origin.clone()): the map key of an account
AccountIdWrapper(a) == a

\* ------------------------------------------------------------ the contract
\* Mutant of new: the map starts with an entry for the first account.
new_seeded == <<Entry(AccountOrder[1], "")>>

\* HelloWorld::new: Default::default(), the empty whisper map
new == EmptyMap

\* Mutant of handle_command: an empty whisper is rejected and not stored.
handle_command_checked(self, origin, txref, cmd) ==
    IF cmd.tag = "SetWhisper" /\ cmd.whisper # ""
    THEN LET current_user == AccountIdWrapper(origin)
         IN  [self |-> insert(self, current_user, cmd.whisper), ret |-> StatusOk]
    ELSE [self |-> self, ret |-> "BadCommand"]

\* Mutant of handle_command: the tx_ref is stored beside the whisper.
handle_command_txref(self, origin, txref, cmd) ==
    IF cmd.tag = "SetWhisper"
    THEN LET current_user == AccountIdWrapper(origin)
         IN  [self |-> insert(self, current_user, <<txref, cmd.whisper>>),
              ret |-> StatusOk]
    ELSE [self |-> self, ret |-> StatusOk]

\* Mutant of handle_command: an empty whisper removes the origin's entry.
handle_command_clear(self, origin, txref, cmd) ==
    IF cmd.tag = "SetWhisper"
    THEN LET current_user == AccountIdWrapper(origin)
         IN  [self |-> IF cmd.whisper = ""
                       THEN SelectSeq(self, LAMBDA e : e.key # current_user)
                       ELSE insert(self, current_user, cmd.whisper),
              ret |-> StatusOk]
    ELSE [self |-> self, ret |-> StatusOk]

\* handle_command(&mut self, origin, txref, cmd): the state after the call
\* and the status returned.
handle_command(self, origin, txref, cmd) ==
    IF cmd.tag = "SetWhisper"
    THEN LET current_user == AccountIdWrapper(origin)
         IN  [self |-> insert(self, current_user, cmd.whisper), ret |-> StatusOk]
    ELSE [self |-> self, ret |-> StatusOk]

\* Mutant of inner: the lookup is made without the contains_key test.
inner_unchecked(self, origin, req) ==
    IF req.tag = "GetWhisper" /\ origin.some
    THEN LET found == get(self, AccountIdWrapper(origin.val))
             value == unwrap(found)
         IN  IF value.panic THEN Panic ELSE Ok(ResponseGetWhisper(value.val))
    ELSE Err(NotAuthorized)

\* Mutant of inner: the global policy, any caller is given the stored value.
inner_global(self, origin, req) ==
    IF req.tag = "GetWhisper" /\ self # <<>>
    THEN Ok(ResponseGetWhisper(self[1].value))
    ELSE Err(NotAuthorized)

\* Mutant of inner: an empty stored whisper counts as no whisper.
inner_nonempty(self, origin, req) ==
    IF req.tag = "GetWhisper"
    THEN IF origin.some /\ get(self, AccountIdWrapper(origin.val)) \notin {None, Some("")}
         THEN LET found == get(self, AccountIdWrapper(origin.val))
                  value == unwrap(found)
              IN  IF value.panic THEN Panic ELSE Ok(ResponseGetWhisper(value.val))
         ELSE Err(NotAuthorized)
    ELSE Err(NotAuthorized)

\* The closure `inner` of handle_query: Result<Response, Error>, or Panic
\* (`found` is the source's local `whisper`, the result of the lookup).
inner(self, origin, req) ==
    IF req.tag = "GetWhisper"
    THEN IF origin.some /\ contains_key(self, AccountIdWrapper(origin.val))
         THEN LET found == get(self, AccountIdWrapper(origin.val))
                  value == unwrap(found)
              IN  IF value.panic THEN Panic ELSE Ok(ResponseGetWhisper(value.val))
         ELSE Err(NotAuthorized)
    ELSE Err(NotAuthorized)

\* Mutant of handle_query: a successful read takes the entry out of the map.
handle_query_take(self, origin, req) ==
    LET r == inner(self, origin, req)
    IN  [self |-> IF r # Panic /\ r.ok
                  THEN SelectSeq(self, LAMBDA e : e.key # origin.val)
                  ELSE self,
         ret  |-> IF r = Panic THEN Panic
                  ELSE IF r.ok THEN r.val ELSE ResponseError(r.err)]

\* handle_query(&mut self, origin, req): the state after the call and the
\* Response returned.
handle_query(self, origin, req) ==
    LET r == inner(self, origin, req)
    IN  [self |-> self,
         ret  |-> IF r = Panic THEN Panic
                  ELSE IF r.ok THEN r.val ELSE ResponseError(r.err)]

\* ------------------------------------------------------------------- state
VARIABLES
    whisper,    \* self.whisper of the contract instance
    pre,        \* self.whisper as it was before the last call
    call,       \* the last call made on the instance, with its arguments
    ret,        \* what the last call returned
    log,        \* the (origin, tx_ref, Command) triples applied so far, in order
    history,    \* history[k + 1]: self.whisper right after the k-th command
    replica,    \* self.whisper of a second instance replaying the same sequence
    replayed    \* how many triples of log the second instance has applied

vars == <<whisper, pre, call, ret, log, history, replica, replayed>>

Init ==
    /\ whisper = new
    /\ pre = new
    /\ call = [op |-> "new"]
    /\ ret = "none"
    /\ log = <<>>
    /\ history = <<new>>
    /\ replica = new
    /\ replayed = 0

\* The tx_ref of the last command delivered (0: none yet).
LastTxRef == IF log = <<>> THEN 0 ELSE log[Len(log)].txref

\* The replay driver delivers one command, in ledger order.
HandleCommand ==
    /\ Len(log) < MaxCmds
    /\ \E origin \in AccountIds, txref \in TxRefs, cmd \in Commands :
          LET r == handle_command(whisper, origin, txref, cmd)
          IN  /\ txref > LastTxRef
              /\ whisper' = r.self
              /\ ret' = r.ret
              /\ pre' = whisper
              /\ call' = [op |-> "handle_command", origin |-> origin,
                          txref |-> txref, cmd |-> cmd]
              /\ log' = Append(log, [origin |-> origin, txref |-> txref, cmd |-> cmd])
              /\ history' = Append(history, r.self)
    /\ UNCHANGED <<replica, replayed>>

\* The query gateway delivers one query.
HandleQuery ==
    /\ \E origin \in Options(AccountIds), req \in Requests :
          LET r == handle_query(whisper, origin, req)
          IN  /\ whisper' = r.self
              /\ ret' = r.ret
              /\ pre' = whisper
              /\ call' = [op |-> "handle_query", origin |-> origin, req |-> req]
    /\ UNCHANGED <<log, history, replica, replayed>>

\* The second instance applies the next triple of the recorded sequence.
ReplayCommand ==
    /\ replayed < Len(log)
    /\ LET c == log[replayed + 1]
       IN  replica' = handle_command(replica, c.origin, c.txref, c.cmd).self
    /\ replayed' = replayed + 1
    /\ UNCHANGED <<whisper, pre, call, ret, log, history>>

Next == HandleCommand \/ HandleQuery \/ ReplayCommand

Spec == Init /\ [][Next]_vars

\* ------------------------------------------------- what the log records
\* The origins that have issued at least one SetWhisper so far.
Writers(l) == {l[i].origin : i \in {j \in DOMAIN l : l[j].cmd.tag = "SetWhisper"}}

\* The positions of the SetWhisper commands of origin a.
WritesOf(l, a) == {i \in DOMAIN l : l[i].origin = a /\ l[i].cmd.tag = "SetWhisper"}
Last(S) == CHOOSE i \in S : \A j \in S : j <= i

\* The value of the most recent SetWhisper of origin a (a \in Writers(l)).
LastSetBy(l, a) == l[Last(WritesOf(l, a))].cmd.whisper

IsQuery == call.op = "handle_query"
IsCommand == call.op = "handle_command"
Denied == ResponseError(NotAuthorized)

\* -------------------------------------------------------------- the claims

\* C1: read-after-write. A GetWhisper query by an origin A that has issued at
\* least one SetWhisper returns Response::GetWhisper with the value of A's
\* most recent SetWhisper, whatever other commands and queries came between.
C1_ReadAfterWrite ==
    /\ IsQuery /\ call.origin.some /\ call.origin.val \in Writers(log)
          => ret = ResponseGetWhisper(LastSetBy(log, call.origin.val))
    /\ \A a \in Writers(log) :
          handle_query(whisper, Some(a), GetWhisper).ret
             = ResponseGetWhisper(LastSetBy(log, a))

\* A queries after writing "hi", overwriting it with "" and a write by B.
C1_Witness ==
    /\ IsQuery /\ call.origin = Some("A")
    /\ Len(log) = 3
    /\ log[1].origin = "A" /\ log[1].cmd = SetWhisper("hi")
    /\ log[2].origin = "A" /\ log[2].cmd = SetWhisper("")
    /\ log[3].origin = "B" /\ log[3].cmd = SetWhisper("hi")
    /\ ret = ResponseGetWhisper("")

\* C2: authorization on read. A query without origin, and a query by an origin
\* that has issued no SetWhisper so far, return Error(NotAuthorized), also
\* when other origins have stored values.
C2_AuthorizationOnRead ==
    /\ IsQuery /\ (~call.origin.some \/ call.origin.val \notin Writers(log))
          => ret = Denied
    /\ handle_query(whisper, None, GetWhisper).ret = Denied
    /\ \A b \in AccountIds \ Writers(log) :
          handle_query(whisper, Some(b), GetWhisper).ret = Denied

\* B, who never wrote, is denied while A and C have stored values.
C2_Witness ==
    /\ IsQuery /\ call.origin = Some("B")
    /\ Writers(log) = {"A", "C"}
    /\ Keys(whisper) = {"A", "C"}
    /\ ret = Denied

\* C3: write isolation. A SetWhisper of origin A leaves the entry (presence
\* and value) of every other origin as it was.
C3_WriteIsolation ==
    IsCommand =>
        \A b \in AccountIds \ {call.origin} :
            get(whisper, AccountIdWrapper(b)) = get(pre, AccountIdWrapper(b))

\* A overwrites its own entry while B holds "hi" and C holds nothing.
C3_Witness ==
    /\ IsCommand /\ call.origin = "A" /\ call.cmd = SetWhisper("")
    /\ get(pre, "A") = Some("hi") /\ get(whisper, "A") = Some("")
    /\ get(pre, "B") = Some("hi") /\ get(whisper, "B") = Some("hi")
    /\ get(pre, "C") = None /\ get(whisper, "C") = None

\* C4: no mutation on read. After any handle_query, with or without origin,
\* served or denied, the whisper map is the map before the call.
C4_NoMutationOnRead == IsQuery => whisper = pre

\* A served query on a map of two entries.
C4_Witness ==
    /\ IsQuery /\ call.origin = Some("B")
    /\ ret = ResponseGetWhisper("hi")
    /\ Keys(pre) = {"A", "B"} /\ whisper = pre


C6_CommandTotal ==
    /\ IsCommand => ret = StatusOk
    /\ \A o \in AccountIds, t \in TxRefs, c \in Commands :
          handle_command(whisper, o, t, c).ret = StatusOk

\* A SetWhisper with the empty value over a stored "hi" returned Ok.
C6_Witness ==
    /\ IsCommand /\ call.cmd = SetWhisper("") /\ ret = StatusOk
    /\ get(pre, call.origin) = Some("hi")

\* C7: handle_query never faults. In every reachable state every optional
\* origin gets GetWhisper{value} or Error(NotAuthorized): no panic from the
\* unwrap of the lookup, and never Error(SomeOtherError).
C7_QueryNeverFaults ==
    /\ IsQuery =>
          /\ ret # Panic
          /\ ret # ResponseError(SomeOtherError)
          /\ ret \in {ResponseGetWhisper(w) : w \in Whispers} \cup {Denied}
    /\ \A o \in Options(AccountIds) :
          LET r == handle_query(whisper, o, GetWhisper).ret
          IN  /\ r \in {ResponseGetWhisper(w) : w \in Whispers} \cup {Denied}
              /\ r.tag = "GetWhisper" => o.some /\ contains_key(whisper, o.val)

\* A query by an origin without an entry, on a map that holds other entries,
\* got Error(NotAuthorized).
C7_Witness ==
    /\ IsQuery /\ call.origin = Some("C")
    /\ Keys(whisper) = {"A", "B"}
    /\ ret = Denied

\* C8: the example scenario. From the empty state, after SetWhisper "hi" as A
\* and nothing else, a query by A returns GetWhisper "hi", a query by any other
\* account returns Error(NotAuthorized), and so does a query without origin.
InScenario ==
    /\ Len(log) = 1
    /\ log[1].origin = "A" /\ log[1].cmd = SetWhisper("hi")

C8_ExampleScenario ==
    InScenario =>
        /\ handle_query(whisper, Some("A"), GetWhisper).ret = ResponseGetWhisper("hi")
        /\ \A b \in AccountIds \ {"A"} :
              handle_query(whisper, Some(b), GetWhisper).ret = Denied
        /\ handle_query(whisper, None, GetWhisper).ret = Denied
        /\ IsQuery =>
              ret = IF call.origin = Some("A") THEN ResponseGetWhisper("hi") ELSE Denied

\* In the scenario B has queried and was denied.
C8_Witness ==
    /\ InScenario
    /\ IsQuery /\ call.origin = Some("B") /\ ret = Denied

\* C9: one map update per command. After SetWhisper{v} of origin A the entry
\* of A exists and is v, no key occurs twice in the map, and the number of
\* entries is one more than before if A had no entry and the same if it had.
UniqueKeys(m) == \A i, j \in DOMAIN m : m[i].key = m[j].key => i = j

C9_OneUpdatePerCommand ==
    /\ UniqueKeys(whisper)
    /\ IsCommand =>
          /\ get(whisper, AccountIdWrapper(call.origin)) = Some(call.cmd.whisper)
          /\ len(whisper) = len(pre)
                + (IF contains_key(pre, AccountIdWrapper(call.origin)) THEN 0 ELSE 1)

\* An overwrite: A's "hi" became "" and the map still has its two entries.
C9_Witness ==
    /\ IsCommand /\ call.origin = "A" /\ call.cmd = SetWhisper("")
    /\ get(pre, "A") = Some("hi")
    /\ len(pre) = 2 /\ len(whisper) = 2

\* C10: a fresh contract is empty. Before any command every GetWhisper query,
\* with or without origin, returns Error(NotAuthorized), and the map differs
\* from the one before the last call only when that call was a handle_command.
C10_FreshContractEmpty ==
    /\ call.op = "new" => whisper = EmptyMap
    /\ log = <<>> =>
          /\ len(whisper) = 0
          /\ \A o \in Options(AccountIds) :
                handle_query(whisper, o, GetWhisper).ret = Denied
          /\ IsQuery => ret = Denied
    /\ whisper # pre => IsCommand

\* A query by A on the fresh contract was denied.
C10_Witness ==
    /\ log = <<>> /\ whisper = EmptyMap
    /\ IsQuery /\ call.origin = Some("A") /\ ret = Denied

\* C11: tx_ref has no influence. On every map two calls that differ only in
\* tx_ref give the same map and status, the map and the status a delivered
\* command left are those the same call would have left with any other tx_ref,
\* and the map holds nothing but accounts and whisper strings.
TxRefIgnoredOnEveryMap ==
    \A m \in AllMaps, o \in AccountIds, c \in Commands, t1, t2 \in TxRefs :
        handle_command(m, o, t1, c) = handle_command(m, o, t2, c)

C11_TxRefNoInfluence ==
    /\ TxRefIgnoredOnEveryMap
    /\ whisper \in AllMaps
    /\ IsCommand =>
          \A t \in TxRefs :
              handle_command(pre, call.origin, t, call.cmd)
                 = [self |-> whisper, ret |-> ret]
    /\ \A i \in DOMAIN whisper :
          /\ DOMAIN whisper[i] = {"key", "value"}
          /\ whisper[i].key \in AccountIds
          /\ whisper[i].value \in Whispers

\* Two commands with the same origin and value but the tx_refs 1 and 4 were
\* delivered, and the second left the map the first had left.
C11_Witness ==
    /\ IsCommand /\ Len(log) = 2
    /\ log[1].origin = "B" /\ log[2].origin = "B"
    /\ log[1].cmd = SetWhisper("hi") /\ log[2].cmd = SetWhisper("hi")
    /\ log[1].txref = 1 /\ log[2].txref = 4
    /\ whisper = pre /\ ret = StatusOk

\* C12: no write-side authorization or value validation. On every map
\* a SetWhisper of any origin with any value, the empty one included, is
\* stored and returns Ok, and a query by that origin afterwards returns
\* GetWhisper with that value: an origin whose latest whisper is empty is
\* served the empty value, not Error(NotAuthorized).
AcceptedOnEveryMap ==
    \A m \in AllMaps, o \in AccountIds, t \in TxRefs, c \in Commands :
        LET r == handle_command(m, o, t, c)
        IN  /\ r.ret = StatusOk
            /\ get(r.self, AccountIdWrapper(o)) = Some(c.whisper)
            /\ handle_query(r.self, Some(o), GetWhisper).ret
                  = ResponseGetWhisper(c.whisper)

C12_NoWriteSideChecks ==
    /\ AcceptedOnEveryMap
    /\ whisper \in AllMaps
    /\ IsCommand =>
          /\ ret = StatusOk
          /\ get(whisper, AccountIdWrapper(call.origin)) = Some(call.cmd.whisper)
          /\ handle_query(whisper, Some(call.origin), GetWhisper).ret
                = ResponseGetWhisper(call.cmd.whisper)
    /\ IsQuery /\ call.origin.some /\ call.origin.val \in Writers(log)
          /\ LastSetBy(log, call.origin.val) = ""
          => ret = ResponseGetWhisper("")

\* B, whose only command stored the empty value, queried and got it back.
C12_Witness ==
    /\ IsQuery /\ call.origin = Some("B")
    /\ Len(log) = 1 /\ log[1].origin = "B" /\ log[1].cmd = SetWhisper("")
    /\ ret = ResponseGetWhisper("")

\* C13: authorization is monotone. No step takes an entry out of the map (the
\* set of origins with a stored whisper never shrinks), and an origin that a
\* GetWhisper query serves, or has just served, is served in the next state too.
Served(m, a) == handle_query(m, Some(a), GetWhisper).ret.tag = "GetWhisper"

C13_AuthorizationMonotone ==
    [][/\ Keys(whisper) \subseteq Keys(whisper')
       /\ \A a \in AccountIds : Served(whisper, a) => Served(whisper', a)
       /\ \A a \in AccountIds :
             IsQuery /\ call.origin = Some(a) /\ ret.tag = "GetWhisper"
                => Served(whisper', a)]_vars

\* A was served after its own command, a later empty overwrite by A and a
\* command by another origin.
C13_Witness ==
    /\ IsQuery /\ call.origin = Some("A") /\ ret.tag = "GetWhisper"
    /\ Len(log) = 3
    /\ log[1].origin = "A" /\ log[1].cmd = SetWhisper("hi")
    /\ log[2].origin = "A" /\ log[2].cmd = SetWhisper("")
    /\ log[3].origin = "C"
    /\ Keys(history[2]) = {"A"} /\ Keys(whisper) = {"A", "C"}

\* C14: the key set of the whisper map is exactly the set of origins that have
\* issued at least one SetWhisper, so a GetWhisper query with origin A is
\* served if and only if A has issued a SetWhisper before it.
C14_KeysAreWriters ==
    /\ Keys(whisper) = Writers(log)
    /\ \A a \in AccountIds :
          handle_query(whisper, Some(a), GetWhisper).ret.tag = "GetWhisper"
             <=> a \in Writers(log)
    /\ IsQuery /\ call.origin.some =>
          (ret.tag = "GetWhisper" <=> call.origin.val \in Writers(log))

\* C, whose only command stored the empty value, was served while B, who
\* issued none, has no key.
C14_Witness ==
    /\ IsQuery /\ call.origin = Some("C") /\ ret.tag = "GetWhisper"
    /\ Len(log) = 2
    /\ log[1].origin = "A" /\ log[2].origin = "C" /\ log[2].cmd = SetWhisper("")
    /\ Keys(whisper) = {"A", "C"} /\ Writers(log) = {"A", "C"}

\* C15: read noninterference. The response to a GetWhisper query of origin B
\* depends on B's entry alone: any two maps that agree on the presence and
\* value of B's entry, whatever they hold for the other origins, give B the
\* same response, and a query without origin gets the same response on every
\* map; so it is for the maps of the two instances, which every reachable
\* state holds among those maps.
OwnEntryDecidesOnEveryMap ==
    /\ \A b \in AccountIds, m1, m2 \in AllMaps :
          get(m1, AccountIdWrapper(b)) = get(m2, AccountIdWrapper(b))
             => handle_query(m1, Some(b), GetWhisper).ret
                   = handle_query(m2, Some(b), GetWhisper).ret
    /\ \A m1, m2 \in AllMaps :
          handle_query(m1, None, GetWhisper).ret
             = handle_query(m2, None, GetWhisper).ret

C15_ReadNoninterference ==
    /\ OwnEntryDecidesOnEveryMap
    /\ {whisper, pre, replica} \subseteq AllMaps
    /\ \A b \in AccountIds :
          get(replica, AccountIdWrapper(b)) = get(whisper, AccountIdWrapper(b))
             => handle_query(replica, Some(b), GetWhisper).ret
                   = handle_query(whisper, Some(b), GetWhisper).ret
    /\ handle_query(replica, None, GetWhisper).ret
          = handle_query(whisper, None, GetWhisper).ret
    /\ IsQuery /\ call.origin.some
          /\ get(replica, AccountIdWrapper(call.origin.val))
                = get(pre, AccountIdWrapper(call.origin.val))
          => handle_query(replica, call.origin, GetWhisper).ret = ret

\* B was served "" by the contract, which also holds entries of A and C, while
\* the second instance holds B's entry alone.
C15_Witness ==
    /\ IsQuery /\ call.origin = Some("B") /\ ret = ResponseGetWhisper("")
    /\ whisper = <<Entry("A", "hi"), Entry("B", ""), Entry("C", "hi")>>
    /\ replica = <<Entry("B", "")>>

\* C16: SetWhisper commands of distinct origins commute. On every map,
\* for A different from B, SetWhisper{v} as A then SetWhisper{w} as B
\* gives the map that the opposite order gives, and the map the last two
\* delivered commands left is the one they would have left in the opposite
\* order when their origins differ. Two commands of one origin with different
\* values do not commute: the later value is the one stored.
Apply(m, c) == handle_command(m, c.origin, c.txref, c.cmd).self
Cmd(o, w) == [origin |-> o, txref |-> 1, cmd |-> SetWhisper(w)]

CommuteOnEveryMap ==
    /\ \A m \in AllMaps, a, b \in AccountIds, v, w \in Whispers :
          a # b => Apply(Apply(m, Cmd(a, v)), Cmd(b, w))
                      = Apply(Apply(m, Cmd(b, w)), Cmd(a, v))
    /\ \A m \in AllMaps, a \in AccountIds, v, w \in Whispers :
          v # w =>
             /\ Apply(Apply(m, Cmd(a, v)), Cmd(a, w))
                   # Apply(Apply(m, Cmd(a, w)), Cmd(a, v))
             /\ get(Apply(Apply(m, Cmd(a, v)), Cmd(a, w)), AccountIdWrapper(a))
                   = Some(w)

C16_DistinctOriginsCommute ==
    /\ CommuteOnEveryMap
    /\ whisper \in AllMaps
    /\ Len(log) >= 2 =>
          LET n == Len(log)
          IN  log[n - 1].origin # log[n].origin
                 => history[n + 1] = Apply(Apply(history[n - 1], log[n]), log[n - 1])

\* B wrote first and A second, and the map is the one that A's write followed
\* by B's gives.
C16_Witness ==
    /\ IsCommand /\ Len(log) = 2
    /\ log[1].origin = "B" /\ log[1].cmd = SetWhisper("hi")
    /\ log[2].origin = "A" /\ log[2].cmd = SetWhisper("")
    /\ whisper = Apply(Apply(new, Cmd("A", "")), Cmd("B", "hi"))
    /\ whisper = <<Entry("A", ""), Entry("B", "hi")>>

\* C17: handle_command is idempotent per command. On every map,
\* for every origin A and value v, SetWhisper{v} as A applied twice in a row
\* gives the map that applying it once gives, and both calls return Ok; the
\* command just delivered, delivered again, would leave the map as it is.
IdempotentOnEveryMap ==
    \A m \in AllMaps, a \in AccountIds, t1, t2 \in TxRefs, c \in Commands :
        LET once == handle_command(m, a, t1, c)
            twice == handle_command(once.self, a, t2, c)
        IN  /\ twice.self = once.self
            /\ once.ret = StatusOk /\ twice.ret = StatusOk

C17_CommandIdempotent ==
    /\ IdempotentOnEveryMap
    /\ whisper \in AllMaps
    /\ IsCommand =>
          handle_command(whisper, call.origin, call.txref, call.cmd)
             = [self |-> whisper, ret |-> StatusOk]
    /\ Len(log) >= 2 =>
          LET n == Len(log)
          IN  log[n - 1].origin = log[n].origin /\ log[n - 1].cmd = log[n].cmd
                 => history[n + 1] = history[n]

\* A stored "hi" twice in a row beside an entry of C: the second command
\* returned Ok and left the two entries as they were.
C17_Witness ==
    /\ IsCommand /\ Len(log) = 3 /\ ret = StatusOk
    /\ log[1].origin = "C"
    /\ log[2].origin = "A" /\ log[2].cmd = SetWhisper("hi")
    /\ log[3].origin = "A" /\ log[3].cmd = SetWhisper("hi")
    /\ history[4] = history[3] /\ whisper = pre /\ len(whisper) = 2

====
